---- MODULE Spec2Model ----
(***************************************************************************)
(* Vietnam holidays (holidays/countries/vietnam.py): the lunisolar to      *)
(* solar date converter of class Vietnam and the per-year population of    *)
(* the holiday map, Vietnam._populate.                                     *)
(*                                                                         *)
(* Dates (datetime.date / datetime.datetime at midnight) are represented   *)
(* by their proleptic Gregorian ordinal, date.toordinal(): 0001-01-01 is   *)
(* day 1.  A raised IndexError is represented by the value IndexError.     *)
(***************************************************************************)
EXTENDS Integers, Sequences, FiniteSets, TLC

\* ---------------------------------------------------------------------
\* Bounds of the model: the years a call may be made with.
MinYear == 1700
MaxYear == 2101

\* ---------------------------------------------------------------------
\* holidays.constants
JAN == 1
APR == 4
MAY == 5
SEP == 9
SAT == 5
SUN == 6

\* The value standing for a raised IndexError (list index out of range).
IndexError == 0 - 1

\* ---------------------------------------------------------------------
\* datetime: ordinals, weekday, date(y, m, d), dt.year / dt.month / dt.day

is_leap(y) == (y % 4 = 0) /\ ((y % 100 # 0) \/ (y % 400 = 0))

DAYS_IN_MONTH == <<31, 28, 31, 30, 31, 30, 31, 31, 30, 31, 30, 31>>

days_in_month(y, m) == IF m = 2 /\ is_leap(y) THEN 29 ELSE DAYS_IN_MONTH[m]

days_before_year(y) ==
    ((y - 1) * 365) + ((y - 1) \div 4) - ((y - 1) \div 100) + ((y - 1) \div 400)

RECURSIVE days_before_month(_, _)
days_before_month(y, m) ==
    IF m = 1 THEN 0 ELSE days_before_month(y, m - 1) + days_in_month(y, m - 1)

\* date(y, m, d).toordinal()
ymd2ord(y, m, d) == days_before_year(y) + days_before_month(y, m) + d

\* (dt.year, dt.month, dt.day) of the date with ordinal n
ord2ymd(n) ==
    LET n0   == n - 1
        n400 == n0 \div 146097
        r400 == n0 % 146097
        n100 == r400 \div 36524
        r100 == r400 % 36524
        n4   == r100 \div 1461
        r4   == r100 % 1461
        n1   == r4 \div 365
        r1   == r4 % 365
        y    == (n400 * 400) + 1 + (n100 * 100) + (n4 * 4) + n1
    IN  IF n1 = 4 \/ n100 = 4
        THEN <<y - 1, 12, 31>>
        ELSE LET m == CHOOSE k \in 1..12 :
                        /\ days_before_month(y, k) <= r1
                        /\ r1 < days_before_month(y, k) + days_in_month(y, k)
             IN  <<y, m, (r1 - days_before_month(y, m)) + 1>>

\* date.weekday(): Monday is 0, Sunday is 6
weekday(n) == (n + 6) % 7

\* ---------------------------------------------------------------------
\* The table of the lunar years 1901..2099: bit i (1..13) is set when the
\* i-th month of the year has 30 days, bits 16..19 hold the leap month,
\* 0x0F when the year has none.
g_lunar_month_days == <<
    \hF0EA4, \hF1D4A, \h52C94, \hF0C96, \hF1536,
    \h42AAC, \hF0AD4, \hF16B2, \h22EA4, \hF0EA4,  \* 1901-1910
    \h6364A, \hF164A, \hF1496, \h52956, \hF055A,
    \hF0AD6, \h216D2, \hF1B52, \h73B24, \hF1D24,  \* 1911-1920
    \hF1A4A, \h5349A, \hF14AC, \hF056C, \h42B6A,
    \hF0DA8, \hF1D52, \h23D24, \hF1D24, \h61A4C,  \* 1921-1930
    \hF0A56, \hF14AE, \h5256C, \hF16B4, \hF0DA8,
    \h31D92, \hF0E92, \h72D26, \hF1526, \hF0A56,  \* 1931-1940
    \h614B6, \hF155A, \hF0AD4, \h436AA, \hF1748,
    \hF1692, \h23526, \hF152A, \h72A5A, \hF0A6C,  \* 1941-1950
    \hF155A, \h52B54, \hF0B64, \hF1B4A, \h33A94,
    \hF1A94, \h8152A, \hF152E, \hF0AAC, \h6156A,  \* 1951-1960
    \hF15AA, \hF0DA4, \h41D4A, \hF1D4A, \hF0C94,
    \h3192E, \hF1536, \h72AB4, \hF0AD4, \hF16D2,  \* 1961-1970
    \h52EA4, \hF16A4, \hF164A, \h42C96, \hF1496,
    \h82956, \hF055A, \hF0ADA, \h616D2, \hF1B52,  \* 1971-1980
    \hF1B24, \h43A4A, \hF1A4A, \hA349A, \hF14AC,
    \hF056C, \h60B6A, \hF0DAA, \hF1D92, \h53D24,  \* 1981-1990
    \hF1D24, \hF1A4C, \h314AC, \hF14AE, \h829AC,
    \hF06B4, \hF0DAA, \h52D92, \hF0E92, \hF0D26,  \* 1991-2000
    \h42A56, \hF0A56, \hF14B6, \h22AB4, \hF0AD4,
    \h736AA, \hF1748, \hF1692, \h53526, \hF152A,  \* 2001-2010
    \hF0A5A, \h4155A, \hF156A, \h92B54, \hF0BA4,
    \hF1B4A, \h63A94, \hF1A94, \hF192A, \h42A5C,  \* 2011-2020
    \hF0AAC, \hF156A, \h22B64, \hF0DA4, \h61D52,
    \hF0E4A, \hF0C96, \h5192E, \hF1956, \hF0AB4,  \* 2021-2030
    \h315AC, \hF16D2, \hB2EA4, \hF16A4, \hF164A,
    \h63496, \hF1496, \hF0956, \h50AB6, \hF0B5A,  \* 2031-2040
    \hF16D4, \h236A4, \hF1B24, \h73A4A, \hF1A4A,
    \hF14AA, \h5295A, \hF096C, \hF0B6A, \h31B54,  \* 2041-2050
    \hF1D92, \h83D24, \hF1D24, \hF1A4C, \h614AC,
    \hF14AE, \hF09AC, \h40DAA, \hF0EAA, \hF0E92,  \* 2051-2060
    \h31D26, \hF0D26, \h72A56, \hF0A56, \hF14B6,
    \h52AB4, \hF0AD4, \hF16CA, \h42E94, \hF1694,  \* 2061-2070
    \h8352A, \hF152A, \hF0A5A, \h6155A, \hF156A,
    \hF0B54, \h4174A, \hF1B4A, \hF1A94, \h3392A,  \* 2071-2080
    \hF192C, \h7329C, \hF0AAC, \hF156A, \h52B64,
    \hF0DA4, \hF1D4A, \h41C94, \hF0C96, \h8192E,  \* 2081-2090
    \hF0956, \hF0AB6, \h615AC, \hF16D4, \hF0EA4,
    \h42E4A, \hF164A, \hF1516, \h22936  \* 2090-2099
>>

START_YEAR == 1901
END_YEAR == 1900 + Len(g_lunar_month_days)

LUNAR_START_DATE == <<1901, 1, 1>>
SOLAR_START_DATE_typo == ymd2ord(1901, 2, 9)
SOLAR_START_DATE == ymd2ord(1901, 2, 19)
LUNAR_END_DATE == <<2099, 12, 30>>
SOLAR_END_DATE == ymd2ord(2100, 2, 18)

\* lst[idx] of a Python list: a negative index counts from the end, an
\* index outside -len..len-1 raises IndexError.
ListGet(lst, idx) ==
    IF 0 <= idx /\ idx < Len(lst) THEN lst[idx + 1]
    ELSE IF idx < 0 /\ (0 - Len(lst)) <= idx THEN lst[Len(lst) + idx + 1]
    ELSE IndexError

Raises(v) == v = IndexError

get_leap_month(lunar_year) ==
    LET e == ListGet(g_lunar_month_days, lunar_year - START_YEAR)
    IN  IF Raises(e) THEN IndexError ELSE (e \div (2 ^ 16)) % 16

lunar_month_days(lunar_year, lunar_month) ==
    LET e == ListGet(g_lunar_month_days, lunar_year - START_YEAR)
    IN  IF Raises(e) THEN IndexError ELSE 29 + ((e \div (2 ^ lunar_month)) % 2)

\* for i in range(i, stop): days += 29 + ((months_day >> i) & 0x01)
RECURSIVE YearDaysLoop(_, _, _)
YearDaysLoop(months_day, i, stop) ==
    IF i >= stop THEN 0
    ELSE (29 + ((months_day \div (2 ^ i)) % 2)) + YearDaysLoop(months_day, i + 1, stop)

\* the leap month left out of the year
lunar_year_days_noleap(year) ==
    LET months_day == ListGet(g_lunar_month_days, year - START_YEAR)
    IN  IF Raises(months_day) THEN IndexError
        ELSE YearDaysLoop(months_day, 1, 13)

lunar_year_days(year) ==
    LET months_day == ListGet(g_lunar_month_days, year - START_YEAR)
        leap       == get_leap_month(year)
    IN  IF Raises(months_day) \/ Raises(leap) THEN IndexError
        ELSE YearDaysLoop(months_day, 1, IF leap = 15 THEN 13 ELSE 14)

\* for y in range(lo, hi): span_days += self.lunar_year_days(y)
\* The sum of the loop, taken over the two halves of the range so that its
\* evaluation stays shallow; an IndexError raised by any iteration is raised
\* by the loop.
RECURSIVE SpanYearsLoop(_, _)
SpanYearsLoop(lo, hi) ==
    IF lo >= hi THEN 0
    ELSE IF hi = lo + 1 THEN lunar_year_days(lo)
    ELSE LET mid == (lo + hi) \div 2
             a   == SpanYearsLoop(lo, mid)
         IN  IF Raises(a) THEN IndexError
             ELSE LET b == SpanYearsLoop(mid, hi)
                  IN  IF Raises(b) THEN IndexError ELSE a + b

\* for m in range(m, stop): span_days += self.lunar_month_days(year, m)
RECURSIVE SpanMonthsLoop(_, _, _)
SpanMonthsLoop(year, m, stop) ==
    IF m >= stop THEN 0
    ELSE LET d == lunar_month_days(year, m)
         IN  IF Raises(d) THEN IndexError
             ELSE LET rest == SpanMonthsLoop(year, m + 1, stop)
                  IN  IF Raises(rest) THEN IndexError ELSE d + rest

\* month + (month >= leap_month)
MonthStop_geq(month, leap_month) == month + (IF month >= leap_month THEN 1 ELSE 0)

\* month + (month > leap_month)
MonthStop(month, leap_month) == month + (IF month > leap_month THEN 1 ELSE 0)

get_solar_date(year, month, day) ==
    LET years == SpanYearsLoop(START_YEAR, year)
    IN  IF Raises(years) THEN IndexError
        ELSE LET leap_month == get_leap_month(year)
             IN  IF Raises(leap_month) THEN IndexError
                 ELSE LET months == SpanMonthsLoop(year, 1, MonthStop(month, leap_month))
                      IN  IF Raises(months) THEN IndexError
                          ELSE SOLAR_START_DATE + (years + months + (day - 1))

\* ---------------------------------------------------------------------
\* State.
\*   year, observed   the argument of _populate and self.observed
\*   pc               the statement group of _populate to run next,
\*                    "done" after its return, "raised" after an exception,
\*                    "idle" when no call of _populate is made
\*   holidays         the holiday map self: date -> name
\*   writes           the assignments self[date] = name made so far, in order
\*   lunar_year, lunar_month, lunar_day, op, ret
\*                    a call of the converter: its arguments, the method
\*                    called ("none" before the call) and what it returned
VARIABLES year, observed, pc, holidays, writes,
          lunar_year, lunar_month, lunar_day, op, ret

vars == <<year, observed, pc, holidays, writes,
          lunar_year, lunar_month, lunar_day, op, ret>>

pvars == <<year, observed, pc, holidays, writes>>
cargs == <<lunar_year, lunar_month, lunar_day>>

InRange(y) == START_YEAR <= y /\ y <= END_YEAR

\* ---------------------------------------------------------------------
\* The converter called on its own.

\* The largest lunar_day tried besides the day of LUNAR_END_DATE.
MaxDay == 2

InitConv ==
    /\ lunar_year \in MinYear..MaxYear
    /\ lunar_month \in 1..13
    /\ lunar_day \in (1..MaxDay) \cup {LUNAR_END_DATE[3]}
    /\ op = "none"
    /\ ret = 0
    /\ year = START_YEAR
    /\ observed = TRUE
    /\ pc = "idle"
    /\ holidays = <<>>
    /\ writes = <<>>

Call_get_leap_month ==
    /\ op = "none"
    /\ op' = "get_leap_month"
    /\ ret' = get_leap_month(lunar_year)
    /\ UNCHANGED <<cargs, pvars>>

Call_lunar_month_days ==
    /\ op = "none"
    /\ op' = "lunar_month_days"
    /\ ret' = lunar_month_days(lunar_year, lunar_month)
    /\ UNCHANGED <<cargs, pvars>>

Call_lunar_year_days ==
    /\ op = "none"
    /\ op' = "lunar_year_days"
    /\ ret' = lunar_year_days(lunar_year)
    /\ UNCHANGED <<cargs, pvars>>

Call_get_solar_date ==
    /\ op = "none"
    /\ op' = "get_solar_date"
    /\ ret' = get_solar_date(lunar_year, lunar_month, lunar_day)
    /\ UNCHANGED <<cargs, pvars>>

NextConv ==
    \/ Call_get_leap_month
    \/ Call_lunar_month_days
    \/ Call_lunar_year_days
    \/ Call_get_solar_date

SpecConv == InitConv /\ [][NextConv]_vars

\* ---------------------------------------------------------------------
\* _populate(year)

NEW_YEAR == "International New Year's Day"
TET_NAMES == << "Vietnamese New Year",
                "The second day of Tet Holiday",
                "The third day of Tet Holiday",
                "The forth day of Tet Holiday",
                "The fifth day of Tet Holiday",
                "Vietnamese New Year's Eve" >>
HUNG_KINGS == "Hung Kings Commemoration Day"
LIBERATION == "Liberation Day/Reunification Day"
LABOR == "International Labor Day"
INDEPENDENCE == "Independence Day"

\* self[k] = v on the pair s of the map and the record of assignments
setitem(s, k, v) ==
    [map |-> [x \in (DOMAIN s.map) \cup {k} |-> IF x = k THEN v ELSE s.map[x]],
     log |-> Append(s.log, <<k, v>>)]

\* the two shifts exchanged
NewYearObserved_swapped(s, first_date, name) ==
    IF weekday(first_date) = SAT
    THEN setitem(s, first_date + 1, name \o " observed")
    ELSE IF weekday(first_date) = SUN
         THEN setitem(s, first_date + 2, name \o " observed")
         ELSE s

\* the observed New Year's Day, when 1 January is a Saturday or a Sunday
NewYearObserved(s, first_date, name) ==
    IF weekday(first_date) = SAT
    THEN setitem(s, first_date + 2, name \o " observed")
    ELSE IF weekday(first_date) = SUN
         THEN setitem(s, first_date + 1, name \o " observed")
         ELSE s

\* the window counted from the day after the eve
TetDay_shifted(s, new_year_date, i) ==
    setitem(s, new_year_date + i + 1, ListGet(TET_NAMES, i))

\* tet_day = new_year_date + rd(days=+i); self[tet_day] = name[i]
TetDay(s, new_year_date, i) ==
    setitem(s, new_year_date + i, ListGet(TET_NAMES, i))

\* for i in range(i, stop, 1)
RECURSIVE TetLoop(_, _, _, _)
TetLoop(s, new_year_date, i, stop) ==
    IF i >= stop THEN s
    ELSE TetLoop(TetDay(s, new_year_date, i), new_year_date, i + 1, stop)

\* if year > 2007
IsHungKingsYear_after(y) == y > 2007

\* the test of the year left out
IsHungKingsYear_always(y) == TRUE

\* if year >= 2007
IsHungKingsYear(y) == y >= 2007

\* the fixed dates inserted before the lunar ones
NextStep_fixedFirst(p) ==
    CASE p = "New Year's Day"   -> "Liberation Day"
      [] p = "Liberation Day"   -> "Labor Day"
      [] p = "Labor Day"        -> "Independence Day"
      [] p = "Independence Day" -> "Lunar New Year"
      [] p = "Lunar New Year"   -> "Hung Kings"
      [] p = "Hung Kings"       -> "done"

\* the order of the statement groups of _populate
NextStep(p) ==
    CASE p = "New Year's Day"   -> "Lunar New Year"
      [] p = "Lunar New Year"   -> "Hung Kings"
      [] p = "Hung Kings"       -> "Liberation Day"
      [] p = "Liberation Day"   -> "Labor Day"
      [] p = "Labor Day"        -> "Independence Day"
      [] p = "Independence Day" -> "done"

Self == [map |-> holidays, log |-> writes]

Init ==
    /\ year \in MinYear..MaxYear
    /\ observed \in BOOLEAN
    /\ pc = "New Year's Day"
    /\ holidays = <<>>
    /\ writes = <<>>
    /\ lunar_year = year
    /\ lunar_month = 1
    /\ lunar_day = 1
    /\ op = "none"
    /\ ret = 0

NewYearsDay ==
    /\ pc = "New Year's Day"
    /\ LET first_date == ymd2ord(year, JAN, 1)
           s1 == setitem(Self, first_date, NEW_YEAR)
           s2 == IF observed
                 THEN NewYearObserved(setitem(s1, first_date, NEW_YEAR),
                                      first_date, NEW_YEAR)
                 ELSE s1
       IN  /\ holidays' = s2.map
           /\ writes' = s2.log
    /\ pc' = NextStep(pc)
    /\ UNCHANGED <<year, observed, cargs, op, ret>>

LunarNewYear ==
    /\ pc = "Lunar New Year"
    /\ LET dt == get_solar_date(year, 1, 1)
       IN  /\ lunar_year' = year
           /\ lunar_month' = 1
           /\ lunar_day' = 1
           /\ op' = "get_solar_date"
           /\ ret' = dt
           /\ IF Raises(dt)
              THEN /\ pc' = "raised"
                   /\ UNCHANGED <<holidays, writes>>
              ELSE LET ymd == ord2ymd(dt)
                       new_year_date == ymd2ord(ymd[1], ymd[2], ymd[3])
                       s == IF observed
                            THEN TetLoop(Self, new_year_date, 0 - 1, 5)
                            ELSE Self
                   IN  /\ holidays' = s.map
                       /\ writes' = s.log
                       /\ pc' = NextStep(pc)
    /\ UNCHANGED <<year, observed>>

HungKings ==
    /\ pc = "Hung Kings"
    /\ IF IsHungKingsYear(year)
       THEN LET dt == get_solar_date(year, 3, 10)
            IN  /\ lunar_year' = year
                /\ lunar_month' = 3
                /\ lunar_day' = 10
                /\ op' = "get_solar_date"
                /\ ret' = dt
                /\ IF Raises(dt)
                   THEN /\ pc' = "raised"
                        /\ UNCHANGED <<holidays, writes>>
                   ELSE LET ymd == ord2ymd(dt)
                            king_hung_date == ymd2ord(ymd[1], ymd[2], ymd[3])
                            s == setitem(Self, king_hung_date, HUNG_KINGS)
                        IN  /\ holidays' = s.map
                            /\ writes' = s.log
                            /\ pc' = NextStep(pc)
       ELSE /\ pc' = NextStep(pc)
            /\ UNCHANGED <<holidays, writes, cargs, op, ret>>
    /\ UNCHANGED <<year, observed>>

LiberationDay ==
    /\ pc = "Liberation Day"
    /\ LET s == setitem(Self, ymd2ord(year, APR, 30), LIBERATION)
       IN  /\ holidays' = s.map
           /\ writes' = s.log
    /\ pc' = NextStep(pc)
    /\ UNCHANGED <<year, observed, cargs, op, ret>>

LaborDay ==
    /\ pc = "Labor Day"
    /\ LET s == setitem(Self, ymd2ord(year, MAY, 1), LABOR)
       IN  /\ holidays' = s.map
           /\ writes' = s.log
    /\ pc' = NextStep(pc)
    /\ UNCHANGED <<year, observed, cargs, op, ret>>

IndependenceDay ==
    /\ pc = "Independence Day"
    /\ LET s == setitem(Self, ymd2ord(year, SEP, 2), INDEPENDENCE)
       IN  /\ holidays' = s.map
           /\ writes' = s.log
    /\ pc' = NextStep(pc)
    /\ UNCHANGED <<year, observed, cargs, op, ret>>

Next ==
    \/ NewYearsDay
    \/ LunarNewYear
    \/ HungKings
    \/ LiberationDay
    \/ LaborDay
    \/ IndependenceDay

Spec == Init /\ [][Next]_vars

\* =====================================================================
\* Properties

OBSERVED_NAME == NEW_YEAR \o " observed"

Jan1 == ymd2ord(year, 1, 1)

\* the dates of the map that carry one of the names of the set
Dated(names) == {d \in DOMAIN holidays : holidays[d] \in names}

\* the assignments made with one of the names of the set
Written(names) == {i \in DOMAIN writes : writes[i][2] \in names}

TetNameSet == {TET_NAMES[k] : k \in 1..Len(TET_NAMES)}

AfterLunarNewYear ==
    pc \in {"Hung Kings", "Liberation Day", "Labor Day", "Independence Day", "done"}

AfterHungKings ==
    pc \in {"Liberation Day", "Labor Day", "Independence Day", "done"}

\* the sum of F(i) for i in lo..hi
RECURSIVE SumOver(_, _, _)
SumOver(F(_), lo, hi) ==
    IF lo > hi THEN 0
    ELSE IF lo = hi THEN F(lo)
    ELSE LET mid == (lo + hi) \div 2
         IN  SumOver(F, lo, mid) + SumOver(F, mid + 1, hi)

\* ---------------------------------------------------------------------
\* C1: for every year outside [START_YEAR, END_YEAR], below as well as
\* above, get_leap_month(year), get_solar_date(year, m, d) and the
\* population of that year raise: none of them returns a value or a
\* date, and the population never completes.
C1_OutOfRangeRaises ==
    ~InRange(year) =>
        /\ pc # "done"
        /\ (op = "get_solar_date" =>
               /\ Raises(ret)
               /\ Raises(get_leap_month(lunar_year)))

\* ---------------------------------------------------------------------
\* C2: for a supported year, with observed false the population inserts
\* no entry of the lunar New Year window; with observed true it inserts
\* exactly six, on the consecutive dates D-1 .. D+4 where
\* D = get_solar_date(year, 1, 1), named the eve, the New Year and the
\* second, third, forth and fifth day of Tet.
C2_TetWindow ==
    InRange(year) =>
        IF observed /\ AfterLunarNewYear
        THEN LET D == get_solar_date(year, 1, 1)
             IN  /\ Dated(TetNameSet) = (D - 1)..(D + 4)
                 /\ Cardinality(Dated(TetNameSet)) = 6
                 /\ Cardinality(Written(TetNameSet)) = 6
                 /\ holidays[D - 1] = "Vietnamese New Year's Eve"
                 /\ holidays[D] = "Vietnamese New Year"
                 /\ holidays[D + 1] = "The second day of Tet Holiday"
                 /\ holidays[D + 2] = "The third day of Tet Holiday"
                 /\ holidays[D + 3] = "The forth day of Tet Holiday"
                 /\ holidays[D + 4] = "The fifth day of Tet Holiday"
        ELSE /\ Dated(TetNameSet) = {}
             /\ Written(TetNameSet) = {}

C2_Witness ==
    /\ pc = "done"
    /\ observed
    /\ year = 2023
    /\ Dated(TetNameSet) = ymd2ord(2023, 1, 21)..ymd2ord(2023, 1, 26)

\* ---------------------------------------------------------------------
\* C3: for a supported year the population always inserts 1 January as
\* "International New Year's Day"; with observed true the map also holds
\* 3 January as "... observed" when 1 January is a Saturday, 2 January
\* when it is a Sunday, and nothing more on a weekday; with observed
\* false no shifted entry is inserted.  1 January is never removed or
\* replaced.
C3_NewYear ==
    InRange(year) /\ pc # "New Year's Day" =>
        /\ Jan1 \in DOMAIN holidays
        /\ holidays[Jan1] = NEW_YEAR
        /\ Dated({NEW_YEAR}) = {Jan1}
        /\ Dated({OBSERVED_NAME}) =
              IF observed /\ weekday(Jan1) = 5 THEN {ymd2ord(year, 1, 3)}
              ELSE IF observed /\ weekday(Jan1) = 6 THEN {ymd2ord(year, 1, 2)}
              ELSE {}

C3_Witness ==
    /\ pc = "done"
    /\ observed
    /\ year = 2023
    /\ weekday(Jan1) = 6
    /\ Dated({OBSERVED_NAME}) = {ymd2ord(2023, 1, 2)}
    /\ holidays[Jan1] = NEW_YEAR

\* ---------------------------------------------------------------------
\* C4: get_solar_date(START_YEAR, 1, 1) is SOLAR_START_DATE, and
\* get_solar_date of LUNAR_END_DATE is SOLAR_END_DATE.
C4_Anchors ==
    op = "get_solar_date" =>
        /\ (cargs = LUNAR_START_DATE => ret = SOLAR_START_DATE)
        /\ (cargs = LUNAR_END_DATE => ret = SOLAR_END_DATE)

\* ---------------------------------------------------------------------
\* C5: for every supported year lunar_year_days(year) lies in 353..385;
\* it lies in 383..385 exactly when the year has a leap month and in
\* 353..355 exactly when get_leap_month(year) is 15.
C5_YearLength ==
    op = "lunar_year_days" /\ InRange(lunar_year) =>
        /\ ret \in 353..385
        /\ (ret \in 383..385) <=> (get_leap_month(lunar_year) # 15)
        /\ (ret \in 353..355) <=> (get_leap_month(lunar_year) = 15)

C5_Witness ==
    /\ op = "lunar_year_days"
    /\ InRange(lunar_year)
    /\ get_leap_month(lunar_year) # 15
    /\ ret = 385

\* ---------------------------------------------------------------------
\* C6: for every supported year get_solar_date(year, 1, 1) is between the
\* 21st and the 51st day of that Gregorian year (21 January to
\* 20 February), and it is strictly increasing in year.
C6_NewYearWindow ==
    op = "get_solar_date" /\ InRange(lunar_year)
                          /\ lunar_month = 1 /\ lunar_day = 1 =>
        /\ ~Raises(ret)
        /\ ymd2ord(lunar_year, 1, 21) <= ret
        /\ ret <= ymd2ord(lunar_year, 2, 20)
        /\ (ret - ymd2ord(lunar_year, 1, 1)) + 1 \in 21..51
        /\ ord2ymd(ret)[1] = lunar_year
        /\ InRange(lunar_year - 1) => get_solar_date(lunar_year - 1, 1, 1) < ret

C6_Witness ==
    /\ op = "get_solar_date"
    /\ cargs = <<2023, 1, 1>>
    /\ ord2ymd(ret) = <<2023, 1, 22>>

\* ---------------------------------------------------------------------
\* C7: for a supported year and either value of observed, "Hung Kings
\* Commemoration Day" is absent from the populated map when year < 2007
\* and present exactly once, on get_solar_date(year, 3, 10), when
\* year >= 2007.
C7_HungKings ==
    InRange(year) /\ AfterHungKings =>
        IF year < 2007
        THEN Dated({HUNG_KINGS}) = {} /\ Written({HUNG_KINGS}) = {}
        ELSE /\ Dated({HUNG_KINGS}) = {get_solar_date(year, 3, 10)}
             /\ Cardinality(Written({HUNG_KINGS})) = 1

C7_Witness ==
    /\ pc = "done"
    /\ ~observed
    /\ year = 2023
    /\ Dated({HUNG_KINGS}) = {ymd2ord(2023, 4, 29)}

\* ---------------------------------------------------------------------
\* C8: for a supported lunar_year, lunar_month in 1..12 and lunar_day in
\* 1..30, get_solar_date is the anchor date plus the lengths of the years
\* START_YEAR .. lunar_year - 1, plus the lengths of the months
\* 1 .. lunar_month - 1, extended to 1 .. lunar_month exactly when
\* lunar_month > get_leap_month(lunar_year), plus lunar_day - 1; in a
\* year without leap month the range is never extended.
C8_Offset ==
    op = "get_solar_date" /\ InRange(lunar_year)
                          /\ lunar_month \in 1..12 /\ lunar_day \in 1..30 =>
        LET leap == get_leap_month(lunar_year)
            last == IF lunar_month > leap THEN lunar_month ELSE lunar_month - 1
            year_length(y) == lunar_year_days(y)
            month_length(k) == lunar_month_days(lunar_year, k)
        IN  /\ ret = ymd2ord(1901, 2, 19)
                       + SumOver(year_length, START_YEAR, lunar_year - 1)
                       + SumOver(month_length, 1, last)
                       + (lunar_day - 1)
            /\ (leap = 15 => last = lunar_month - 1)

C8_Witness ==
    /\ op = "get_solar_date"
    /\ cargs = <<2023, 3, 2>>
    /\ get_leap_month(2023) = 2
    /\ ord2ymd(ret) = <<2023, 4, 21>>

\* ---------------------------------------------------------------------
\* C9: for a supported year and either value of observed the rules of the
\* population write to pairwise distinct dates: no date written by one
\* rule is written by another, so no entry is ever overwritten by another
\* rule.
C9_DistinctDates ==
    InRange(year) =>
        /\ \A i, j \in DOMAIN writes :
               writes[i][1] = writes[j][1] => writes[i][2] = writes[j][2]
        /\ \A i \in DOMAIN writes :
               /\ writes[i][1] \in DOMAIN holidays
               /\ holidays[writes[i][1]] = writes[i][2]

C9_Witness ==
    /\ pc = "done"
    /\ observed
    /\ InRange(year)
    /\ Len(writes) = 13
    /\ Cardinality(DOMAIN holidays) = 12

\* ---------------------------------------------------------------------
\* C10: when a population fails because the converter is called outside
\* the range of its table, it fails at the first call of the converter:
\* the map then holds the entry of 1 January (and the observed entry when
\* observed is true and 1 January is a Saturday or a Sunday) and no entry
\* of a later rule; the entries made are not rolled back.
C10_FailsAtFirstCall ==
    pc = "raised" =>
        /\ op = "get_solar_date"
        /\ cargs = <<year, 1, 1>>
        /\ Raises(ret)
        /\ holidays =
              IF observed /\ weekday(Jan1) = 5
              THEN (Jan1 :> NEW_YEAR) @@ (ymd2ord(year, 1, 3) :> OBSERVED_NAME)
              ELSE IF observed /\ weekday(Jan1) = 6
                   THEN (Jan1 :> NEW_YEAR) @@ (ymd2ord(year, 1, 2) :> OBSERVED_NAME)
                   ELSE (Jan1 :> NEW_YEAR)
        /\ Dated(TetNameSet \cup {HUNG_KINGS, LIBERATION, LABOR, INDEPENDENCE}) = {}

C10_Witness ==
    /\ pc = "raised"
    /\ observed
    /\ weekday(Jan1) = 5
    /\ Cardinality(DOMAIN holidays) = 2

====
